---------------------------- MODULE Spec2Model ----------------------------
(***************************************************************************)
(* Model of scripts/remove_white_background.py.                            *)
(*                                                                         *)
(* Spec   : the in-memory pipeline of remove_background on a decoded image *)
(*          (RGBA conversion, corner detection, per-pixel loop, putdata,   *)
(*          save), with concrete pixels.                                   *)
(* SpecFS : the three functions of the script acting on a file system      *)
(*          whose file contents are abstract (original / processed /       *)
(*          corrupt): remove_background, process_directory, main.          *)
(***************************************************************************)
EXTENDS Integers, Sequences, FiniteSets

VARIABLES
    \* ---- Spec: one run of remove_background on a decoded image ----
    pc,             \* position in remove_background
    src,            \* the image as decoded by Image.open (mode, size, data)
    img,            \* the in-memory image object `img`
    tolerance,      \* parameter `tolerance`
    corners,        \* local `corners`
    bg_color,       \* local `bg_color`
    new_data,       \* local `new_data`
    pixels_changed, \* local `pixels_changed`
    saved,          \* image written by img.save, or NoImage
    result          \* return value of remove_background, or "none"

pixvars == <<pc, src, img, tolerance, corners, bg_color, new_data,
             pixels_changed, saved, result>>

VARIABLES
    \* ---- SpecFS: the script's functions acting on a file system ----
    fs,          \* content of every path of the file system
    op,          \* the function called last
    args,        \* its arguments
    ret,         \* what the call returned, or the exception that escaped it
    log,         \* the messages the call printed, in order
    opened,      \* paths the call handed to Image.open
    written,     \* paths the call handed to img.save
    visited,     \* process_directory: files whose loop iteration started
    attempted,   \* process_directory: files whose remove_background ran
    exc,         \* the exception raised inside the call, or "none"
    pre_backup   \* per image file: the content it had at the start of the
                 \* process_directory call that created its backup

fsvars == <<fs, op, args, ret, log, opened, written, visited, attempted,
            exc, pre_backup>>

vars == <<pixvars, fsvars>>

-----------------------------------------------------------------------------
(* Bounds of the model *)

\* largest number of pixels (Width * Height) of an image
MaxPixels == 4

\* RGB triples pixels are drawn from: white, two near-whites at L1 distance
\* 30 and 31 from white, and black
Colours == {<<255, 255, 255>>, <<255, 245, 235>>, <<255, 245, 234>>, <<0, 0, 0>>}

\* pixels of an image decoded in mode RGBA: every colour half transparent,
\* and white fully transparent
RGBAPixels ==
    {<<c[1], c[2], c[3], 128>> : c \in Colours} \cup {<<255, 255, 255, 0>>}

\* values of the parameter `tolerance`
Tolerances == {-1, 0, 30}

Modes == {"RGB", "RGBA"}

Sizes == {s \in (1..MaxPixels) \X (1..MaxPixels) : s[1] * s[2] <= MaxPixels}

RawPixels(mode) ==
    IF mode = "RGB" THEN Colours ELSE RGBAPixels

Images ==
    UNION {{[mode |-> m, size |-> s, data |-> d] :
                d \in [1..(s[1] * s[2]) -> RawPixels(m)]} :
           m \in Modes, s \in Sizes}

NoImage == [mode |-> "none", size |-> <<0, 0>>, data |-> <<>>]

-----------------------------------------------------------------------------
(* Helpers of remove_background *)

Abs(x) == IF x < 0 THEN -x ELSE x

\* item[:3]
RGB(item) == <<item[1], item[2], item[3]>>

\* img.convert('RGBA') on one pixel: an RGB pixel gains alpha 255
ConvertPixel(mode, p) ==
    IF mode = "RGBA" THEN p ELSE <<p[1], p[2], p[3], 255>>

\* img.convert('RGBA')
ConvertRGBA(im) ==
    [mode |-> "RGBA", size |-> im.size,
     data |-> [i \in 1..Len(im.data) |-> ConvertPixel(im.mode, im.data[i])]]

\* variant: the right and bottom corners taken one index too far
CornerIndicesOffByOne(size) ==
    <<0, size[1], size[1] * (size[2] - 1), size[1] * size[2]>>

\* the four indices (0-based, as in the code) used to sample the corners
CornerIndices(size) ==
    <<0, size[1] - 1, size[1] * (size[2] - 1), size[1] * size[2] - 1>>

\* data[i] is defined for 0 <= i < len(data); otherwise IndexError
InRange(data, i) == 0 <= i /\ i < Len(data)

\* data[i], 0-based
GetData(data, i) == data[i + 1]

\* Counter(seq): the distinct elements of seq in first-insertion order
RECURSIVE CounterKeys(_, _)
CounterKeys(seq, keys) ==
    IF seq = <<>> THEN keys
    ELSE CounterKeys(Tail(seq),
                     IF \E k \in 1..Len(keys) : keys[k] = Head(seq)
                     THEN keys ELSE Append(keys, Head(seq)))

\* Counter(seq)[c]
CounterCount(seq, c) == Cardinality({i \in 1..Len(seq) : seq[i] = c})

\* variant: a later key also replaces the best one on an equal count
KeepsBestStrict(seq, best, cand) == CounterCount(seq, cand) < CounterCount(seq, best)

\* max(items, key=count) as heapq.nlargest(1, ...) computes it: a later key
\* replaces the best one only when its count is strictly greater
KeepsBest(seq, best, cand) == CounterCount(seq, cand) <= CounterCount(seq, best)

RECURSIVE MaxScan(_, _, _)
MaxScan(seq, keys, best) ==
    IF keys = <<>> THEN best
    ELSE MaxScan(seq, Tail(keys),
                 IF KeepsBest(seq, best, Head(keys)) THEN best ELSE Head(keys))

\* Counter(seq).most_common(1)[0][0]
MostCommon(seq) ==
    LET keys == CounterKeys(seq, <<>>)
    IN  MaxScan(seq, Tail(keys), Head(keys))

\* abs(r - bg[0]) + abs(g - bg[1]) + abs(b - bg[2])
ColorDistance(item, bg) ==
    Abs(item[1] - bg[1]) + Abs(item[2] - bg[2]) + Abs(item[3] - bg[3])

\* variant: the test written `color_distance < tolerance`
IsBackgroundStrict(item, bg, tol) == ColorDistance(item, bg) < tol

\* the test `color_distance <= tolerance`
IsBackground(item, bg, tol) == ColorDistance(item, bg) <= tol

\* variant: a background pixel emitted as (0, 0, 0, 0)
TransparentPixelZeroed(item) == <<0, 0, 0, 0>>

\* the pixel appended to new_data for a background pixel
TransparentPixel(item) == <<item[1], item[2], item[3], 0>>

\* variant: a pixel that is not background always emitted with alpha 255
KeptPixelOpaque(item) == <<item[1], item[2], item[3], 255>>

\* the pixel appended to new_data for a pixel that is not background
KeptPixel(item) ==
    IF Len(item) = 4 THEN item ELSE <<item[1], item[2], item[3], 255>>

\* variant: only pixels whose alpha actually changes are counted
CountsPixelChangedOnly(item, bg, tol) ==
    IsBackground(item, bg, tol) /\ item[4] # 0

\* whether the loop body increments pixels_changed for this pixel
CountsPixel(item, bg, tol) == IsBackground(item, bg, tol)

\* one iteration of `for item in data`
LoopBody(acc, item, bg, tol) ==
    [new_data |-> Append(acc.new_data,
                         IF IsBackground(item, bg, tol)
                         THEN TransparentPixel(item) ELSE KeptPixel(item)),
     pixels_changed |-> acc.pixels_changed +
                        (IF CountsPixel(item, bg, tol) THEN 1 ELSE 0)]

RECURSIVE PixelLoop(_, _, _, _)
PixelLoop(data, acc, bg, tol) ==
    IF data = <<>> THEN acc
    ELSE PixelLoop(Tail(data), LoopBody(acc, Head(data), bg, tol), bg, tol)

\* img.putdata(new_data): the size of the image object does not change
PutData(im, nd) == [im EXCEPT !.data = nd]

-----------------------------------------------------------------------------
(* Spec: remove_background from the decoded image to its return *)

FSIdle ==
    /\ fs = [p \in {} |-> "absent"]
    /\ op = "none"
    /\ args = <<>>
    /\ ret = "none"
    /\ log = <<>>
    /\ opened = {}
    /\ written = {}
    /\ visited = <<>>
    /\ attempted = <<>>
    /\ exc = "none"
    /\ pre_backup = <<>>

Init ==
    /\ FSIdle
    /\ pc = "convert"
    /\ src \in Images
    /\ img = src
    /\ tolerance \in Tolerances
    /\ corners = <<>>
    /\ bg_color = <<>>
    /\ new_data = <<>>
    /\ pixels_changed = 0
    /\ saved = NoImage
    /\ result = "none"

\* if img.mode != 'RGBA': img = img.convert('RGBA')
Convert ==
    /\ pc = "convert"
    /\ img' = IF img.mode # "RGBA" THEN ConvertRGBA(img) ELSE img
    /\ pc' = "detect"
    /\ UNCHANGED <<src, tolerance, corners, bg_color, new_data,
                   pixels_changed, saved, result>>
    /\ UNCHANGED fsvars

\* corners = [...]; bg_color = Counter(corner_colors).most_common(1)[0][0]
Detect ==
    /\ pc = "detect"
    /\ LET idx == CornerIndices(img.size)
       IN  IF \A k \in 1..4 : InRange(img.data, idx[k])
           THEN LET cs == [k \in 1..4 |-> GetData(img.data, idx[k])]
                    corner_colors == [k \in 1..4 |-> RGB(cs[k])]
                IN  /\ corners' = cs
                    /\ bg_color' = MostCommon(corner_colors)
                    /\ pc' = "transform"
                    /\ result' = result
           ELSE \* IndexError, caught by `except Exception`
                /\ pc' = "done"
                /\ result' = "False"
                /\ UNCHANGED <<corners, bg_color>>
    /\ UNCHANGED <<src, img, tolerance, new_data, pixels_changed, saved>>
    /\ UNCHANGED fsvars

\* the loop `for item in data`
Transform ==
    /\ pc = "transform"
    /\ LET r == PixelLoop(img.data, [new_data |-> <<>>, pixels_changed |-> 0],
                          bg_color, tolerance)
       IN  /\ new_data' = r.new_data
           /\ pixels_changed' = r.pixels_changed
    /\ pc' = "save"
    /\ UNCHANGED <<src, img, tolerance, corners, bg_color, saved, result>>
    /\ UNCHANGED fsvars

\* img.putdata(new_data); img.save(output_path, "PNG"); return True
\* or img.save raises and `except Exception` returns False
PutAndSave ==
    /\ pc = "save"
    /\ img' = PutData(img, new_data)
    /\ \E ok \in BOOLEAN :
         IF ok THEN saved' = img' /\ result' = "True"
               ELSE saved' = saved /\ result' = "False"
    /\ pc' = "done"
    /\ UNCHANGED <<src, tolerance, corners, bg_color, new_data, pixels_changed>>
    /\ UNCHANGED fsvars

Next == Convert \/ Detect \/ Transform \/ PutAndSave

Spec == Init /\ [][Next]_vars

-----------------------------------------------------------------------------
(* SpecFS: paths and the file system *)

\* A path is a directory (sequence of components) and a file name; a file
\* name is the sequence of its dot-separated segments, each a sequence of
\* pieces: "assets/a_transparent.png" is
\* [dir |-> <<"assets">>, name |-> << <<"a", "_transparent">>, <<"png">> >>].
MkPath(dir, base, ext) == [dir |-> dir, name |-> << <<base>>, <<ext>> >>]

NoPath == [dir |-> <<>>, name |-> <<>>]

AssetsDir == <<"assets">>

APng == MkPath(AssetsDir, "a", "png")
BJpg == MkPath(AssetsDir, "b", "JPG")

\* os.path.splitext(input_path)[0] + "_transparent" + ext
TransparentPath(p) ==
    LET n == Len(p.name)
    IN  IF n >= 2
        THEN [p EXCEPT !.name[n - 1] = Append(@, "_transparent")]
        ELSE [p EXCEPT !.name[n] = Append(@, "_transparent")]

\* f"{img_file}.backup"
BackupPath(p) == [p EXCEPT !.name = Append(@, <<"backup">>)]

\* os.path.join("assets", filename)
JoinAssets(filename) == [filename EXCEPT !.dir = AssetsDir \o @]

\* os.path.sep in filename
HasSep(filename) == filename.dir # <<>>

GivenFiles == {APng, BJpg}
\* the files given as input_path without an output_path
DefaultOutputInputs == {APng}
ImagePaths == GivenFiles \cup {TransparentPath(p) : p \in DefaultOutputInputs}
FSPaths == ImagePaths \cup {BackupPath(p) : p \in ImagePaths}

\* what a file holds: nothing, an image never processed, an image written by
\* remove_background, or bytes no decoder accepts
Contents == {"absent", "orig", "proc", "corrupt"}

\* os.path.exists on a file path
Exists(f, p) == p \in DOMAIN f /\ f[p] # "absent"

\* os.path.exists on a directory path: the only directory is assets
DirExists(d) == d = AssetsDir

\* Image.open and the decoding of the pixel data succeed
Decodable(c) == c \in {"orig", "proc"}

\* the content written by img.save for an input of content c
Processed(c) == "proc"

\* how img.save(output_path, "PNG") can end: the file is written; it cannot
\* be opened for writing; the write fails after the file was truncated
SaveOutcomes == {"ok", "unwritable", "partial"}

Msg(m, p) == [msg |-> m, path |-> p]

\* variant: the handler lets the exception go on
ExceptReraise(e) == e

\* the value remove_background returns from `except Exception as e`
ExceptReturn(e) == "False"

\* remove_background(input_path, output_path, tolerance)
RemoveBackground(f, input_path, output_path, tol, save) ==
    IF ~Exists(f, input_path)
    THEN [fs |-> f, ret |-> "False", exc |-> "none", opened |-> {},
          written |-> {},
          log |-> <<Msg("Error: Input file not found", input_path)>>]
    ELSE IF ~Decodable(f[input_path])
    THEN [fs |-> f, ret |-> ExceptReturn("DecodeError"), exc |-> "DecodeError",
          opened |-> {input_path}, written |-> {},
          log |-> <<Msg("Error processing image", input_path)>>]
    ELSE LET out == IF output_path = NoPath THEN TransparentPath(input_path)
                    ELSE output_path
         IN  CASE save = "ok" ->
                    [fs |-> [f EXCEPT ![out] = Processed(f[input_path])],
                     ret |-> "True", exc |-> "none",
                     opened |-> {input_path}, written |-> {out},
                     log |-> <<Msg("Successfully processed image!", out)>>]
               [] save = "unwritable" ->
                    [fs |-> f, ret |-> ExceptReturn("IOError"),
                     exc |-> "IOError",
                     opened |-> {input_path}, written |-> {},
                     log |-> <<Msg("Error processing image", input_path)>>]
               [] OTHER ->
                    [fs |-> [f EXCEPT ![out] = "corrupt"],
                     ret |-> ExceptReturn("IOError"), exc |-> "IOError",
                     opened |-> {input_path}, written |-> {out},
                     log |-> <<Msg("Error processing image", input_path)>>]

-----------------------------------------------------------------------------
(* process_directory *)

\* image_extensions, each followed by its upper-case form
GlobExtensions ==
    <<"png", "PNG", "jpg", "JPG", "jpeg", "JPEG", "bmp", "BMP", "tiff", "TIFF">>

\* glob.glob(os.path.join(directory_path, "*." + e)) matches p
GlobMatches(f, dir, e, p) ==
    /\ Exists(f, p)
    /\ p.dir = dir
    /\ Len(p.name) >= 2
    /\ p.name[Len(p.name)] = <<e>>

\* the orders in which glob can list a set of files
Listings(S) ==
    {l \in [1..Cardinality(S) -> S] : \A i, j \in 1..Cardinality(S) :
                                          l[i] = l[j] => i = j}

\* the lists image_files can be after the discovery loop
RECURSIVE ImageFileLists(_, _, _)
ImageFileLists(f, dir, exts) ==
    IF exts = <<>> THEN {<<>>}
    ELSE LET matching == {p \in DOMAIN f : GlobMatches(f, dir, Head(exts), p)}
         IN  {l \o rest : l \in Listings(matching),
                          rest \in ImageFileLists(f, dir, Tail(exts))}

\* the names bound at module level
ModuleGlobals == {"remove_background", "process_directory", "main"}

\* the name process_directory calls for each file
CalledName == "remove_white_background"

\* variant: the backup is copied whether or not one exists
BackupAlways(f, backup_path) == TRUE

\* `if not os.path.exists(backup_path)`
BackupNeeded(f, backup_path) == ~Exists(f, backup_path)

\* the backup step of one loop iteration
BackupStep(st, img_file, backup, copyFails) ==
    IF backup /\ BackupNeeded(st.fs, BackupPath(img_file))
    THEN IF img_file \in copyFails
         THEN [st EXCEPT !.log = Append(@, Msg("Warning: Could not create backup",
                                               img_file))]
         ELSE [st EXCEPT !.fs[BackupPath(img_file)] = st.fs[img_file],
                         !.log = Append(@, Msg("Backup created", img_file))]
    ELSE st

\* `if remove_white_background(img_file, img_file, tolerance): ... else: ...`
ProcessStep(st, img_file, tol, save) ==
    IF CalledName \in ModuleGlobals
    THEN LET r == RemoveBackground(st.fs, img_file, img_file, tol, save)
         IN  [st EXCEPT !.fs = r.fs,
                        !.exc = IF r.ret \in {"True", "False"} THEN "none"
                                ELSE r.ret,
                        !.attempted = Append(@, img_file),
                        !.opened = @ \cup r.opened,
                        !.written = @ \cup r.written,
                        !.success_count = IF r.ret = "True" THEN @ + 1 ELSE @,
                        !.log = IF r.ret = "True" THEN @ \o r.log
                                ELSE Append(@ \o r.log,
                                            Msg("Failed to process", img_file))]
    ELSE [st EXCEPT !.exc = "NameError"]

\* the loop `for img_file in image_files`; an exception ends it
RECURSIVE FileLoop(_, _, _, _, _, _)
FileLoop(files, st, tol, backup, copyFails, save) ==
    IF files = <<>> \/ st.exc # "none" THEN st
    ELSE LET img_file == Head(files)
             s0 == [st EXCEPT !.visited = Append(@, img_file)]
             s1 == BackupStep(s0, img_file, backup, copyFails)
             s2 == ProcessStep(s1, img_file, tol, save)
         IN  FileLoop(Tail(files), s2, tol, backup, copyFails, save)

\* process_directory(directory_path, tolerance, backup) with image_files as
\* discovered
ProcessDirectoryBody(f, directory_path, image_files, tol, backup, copyFails, save) ==
    LET st0 == [fs |-> f, ret |-> "False", exc |-> "none", opened |-> {},
                written |-> {}, visited |-> <<>>, attempted |-> <<>>,
                success_count |-> 0, log |-> <<>>]
    IN  IF ~DirExists(directory_path)
        THEN [st0 EXCEPT !.log = <<Msg("Error: Directory not found", NoPath)>>]
        ELSE IF image_files = <<>>
        THEN [st0 EXCEPT !.log = <<Msg("No image files found", NoPath)>>]
        ELSE LET st == FileLoop(image_files, st0, tol, backup, copyFails, save)
             IN  IF st.exc # "none"
                 THEN [st EXCEPT !.ret = st.exc]
                 ELSE [st EXCEPT !.ret = IF st.success_count > 0
                                         THEN "True" ELSE "False",
                                 !.log = Append(@, Msg("Processing complete!",
                                                       NoPath))]

-----------------------------------------------------------------------------
(* main *)

\* tolerance = 30
DefaultTolerance == 30

\* the strings given as sys.argv[2] and, for those int() accepts, their value
IntValue == [s \in {"0", "-1"} |-> IF s = "0" THEN 0 ELSE -1]
ToleranceArgs == {"0", "-1", "abc"}

\* int(sys.argv[2]) does not raise ValueError
IsInt(s) == s \in DOMAIN IntValue

\* the command lines: argc is len(sys.argv)
Argvs ==
    {[argc |-> 1, filename |-> NoPath, tol |-> ""]}
    \cup {[argc |-> 2, filename |-> fn, tol |-> ""] :
              fn \in {[APng EXCEPT !.dir = <<>>], BJpg}}
    \cup {[argc |-> 3, filename |-> fn, tol |-> t] :
              fn \in {[APng EXCEPT !.dir = <<>>], BJpg}, t \in ToleranceArgs}

\* main()
MainBody(f, argv, save) ==
    LET st0 == [fs |-> f, ret |-> "None", exc |-> "none", opened |-> {},
                written |-> {}, log |-> <<>>]
    IN  IF argv.argc < 2
        THEN [st0 EXCEPT !.log = <<Msg("Usage", NoPath)>>]
        ELSE LET filename == argv.filename
                 badTol == argv.argc > 2 /\ ~IsInt(argv.tol)
                 tol == IF argv.argc > 2 /\ IsInt(argv.tol)
                        THEN IntValue[argv.tol] ELSE DefaultTolerance
                 warn == IF badTol
                         THEN <<Msg("Warning: Invalid tolerance value", NoPath)>>
                         ELSE <<>>
                 filepath == IF ~HasSep(filename) THEN JoinAssets(filename)
                             ELSE filename
             IN  IF ~Exists(f, filepath)
                 THEN [st0 EXCEPT !.log = Append(warn,
                                     Msg("Error: File not found", filepath))]
                 ELSE LET r == RemoveBackground(f, filepath, filepath, tol, save)
                      IN  IF r.ret \notin {"True", "False"}
                          THEN \* an exception left remove_background
                               [st0 EXCEPT !.fs = r.fs, !.exc = r.exc,
                                           !.ret = r.ret,
                                           !.opened = r.opened,
                                           !.written = r.written,
                                           !.log = warn \o <<Msg("Processing", filepath)>>
                                                   \o r.log]
                          ELSE
                          [st0 EXCEPT
                             !.fs = r.fs, !.exc = r.exc,
                             !.opened = r.opened, !.written = r.written,
                             !.log = warn \o <<Msg("Processing", filepath)>>
                                     \o r.log
                                     \o <<IF r.ret = "True"
                                          THEN Msg("Image processing completed successfully!", filepath)
                                          ELSE Msg("Image processing failed.", filepath)>>]

-----------------------------------------------------------------------------
(* SpecFS: the actions *)

PixIdle ==
    /\ pc = "idle"
    /\ src = NoImage
    /\ img = NoImage
    /\ tolerance = 0
    /\ corners = <<>>
    /\ bg_color = <<>>
    /\ new_data = <<>>
    /\ pixels_changed = 0
    /\ saved = NoImage
    /\ result = "none"

NoArgs == [input_path |-> NoPath, output_path |-> NoPath, tolerance |-> 0,
           input_existed |-> FALSE,
           directory_path |-> <<>>, backup |-> FALSE, image_files |-> <<>>,
           argv |-> [argc |-> 0, filename |-> NoPath, tol |-> ""]]

InitFS ==
    /\ PixIdle
    /\ fs \in [FSPaths -> Contents]
    /\ \A p \in FSPaths : p \notin GivenFiles => fs[p] = "absent"
    /\ \A p \in GivenFiles : fs[p] # "proc"
    /\ op = "none"
    /\ args = NoArgs
    /\ ret = "none"
    /\ log = <<>>
    /\ opened = {}
    /\ written = {}
    /\ visited = <<>>
    /\ attempted = <<>>
    /\ exc = "none"
    /\ pre_backup = [p \in ImagePaths |-> "absent"]

\* a call remove_background(input_path, output_path, tolerance)
CallRemoveBackground ==
    \E input_path \in GivenFiles, output_path \in GivenFiles \cup {NoPath},
       tol \in {DefaultTolerance}, save \in SaveOutcomes :
       /\ output_path = NoPath => input_path \in DefaultOutputInputs
       /\ output_path # NoPath => output_path = input_path
       /\ LET r == RemoveBackground(fs, input_path, output_path, tol, save)
          IN
           /\ op' = "remove_background"
           /\ args' = [NoArgs EXCEPT !.input_path = input_path,
                                     !.output_path = output_path,
                                     !.tolerance = tol,
                                     !.input_existed = Exists(fs, input_path)]
           /\ fs' = r.fs
           /\ ret' = r.ret
           /\ log' = r.log
           /\ opened' = r.opened
           /\ written' = r.written
           /\ exc' = r.exc
           /\ visited' = <<>>
           /\ attempted' = <<>>
           /\ UNCHANGED pre_backup
           /\ UNCHANGED pixvars

\* a call process_directory(directory_path, tolerance, backup)
CallProcessDirectory ==
    \E directory_path \in {AssetsDir, <<"nodir">>}, backup \in BOOLEAN,
       tol \in {DefaultTolerance},
       save \in (IF CalledName \in ModuleGlobals THEN SaveOutcomes ELSE {"ok"}) :
       \E image_files \in ImageFileLists(fs, directory_path, GlobExtensions) :
       \E copyFails \in SUBSET {image_files[i] : i \in 1..Len(image_files)} :
       LET r == ProcessDirectoryBody(fs, directory_path, image_files, tol,
                                     backup, copyFails, save)
       IN  /\ op' = "process_directory"
           /\ args' = [NoArgs EXCEPT !.directory_path = directory_path,
                                     !.tolerance = tol,
                                     !.backup = backup,
                                     !.image_files = image_files]
           /\ fs' = r.fs
           /\ ret' = r.ret
           /\ log' = r.log
           /\ opened' = r.opened
           /\ written' = r.written
           /\ exc' = r.exc
           /\ visited' = r.visited
           /\ attempted' = r.attempted
           /\ pre_backup' = [p \in ImagePaths |->
                               IF ~Exists(fs, BackupPath(p))
                                  /\ Exists(r.fs, BackupPath(p))
                               THEN fs[p] ELSE pre_backup[p]]
           /\ UNCHANGED pixvars

\* a run of the script: main() with sys.argv
CallMain ==
    \E argv \in Argvs, save \in SaveOutcomes :
       LET r == MainBody(fs, argv, save)
       IN  /\ op' = "main"
           /\ args' = [NoArgs EXCEPT !.argv = argv]
           /\ fs' = r.fs
           /\ ret' = r.ret
           /\ log' = r.log
           /\ opened' = r.opened
           /\ written' = r.written
           /\ exc' = r.exc
           /\ visited' = <<>>
           /\ attempted' = <<>>
           /\ UNCHANGED pre_backup
           /\ UNCHANGED pixvars

NextFS == CallRemoveBackground \/ CallProcessDirectory \/ CallMain

SpecFS == InitFS /\ [][NextFS]_vars


-----------------------------------------------------------------------------
(* Properties of Spec (the pixel pipeline) *)

Width == src.size[1]
Height == src.size[2]

\* the loop has run (pc = "done" with no corners is the IndexError return)
Transformed == pc = "save" \/ (pc = "done" /\ corners # <<>>)

\* the background colour has been detected
Detected == pc = "transform" \/ Transformed

\* |r - bg.r| + |g - bg.g| + |b - bg.b| of source pixel i
L1(i) ==
    LET p == src.data[i]
        d1 == IF p[1] >= bg_color[1] THEN p[1] - bg_color[1] ELSE bg_color[1] - p[1]
        d2 == IF p[2] >= bg_color[2] THEN p[2] - bg_color[2] ELSE bg_color[2] - p[2]
        d3 == IF p[3] >= bg_color[3] THEN p[3] - bg_color[3] ELSE bg_color[3] - p[3]
    IN  d1 + d2 + d3

\* the alpha of source pixel i once the image is RGBA
SrcAlpha(i) == IF src.mode = "RGBA" THEN src.data[i][4] ELSE 255

\* the RGB of the source pixel at column x, row y (0-based)
SrcRGBAt(x, y) ==
    LET p == src.data[y * Width + x + 1] IN <<p[1], p[2], p[3]>>

\* the four corner colours in the order top-left, top-right, bottom-left,
\* bottom-right
Samples ==
    <<SrcRGBAt(0, 0), SrcRGBAt(Width - 1, 0),
      SrcRGBAt(0, Height - 1), SrcRGBAt(Width - 1, Height - 1)>>

SampleCount(k) == Cardinality({m \in 1..4 : Samples[m] = Samples[k]})

\* C1: after the loop, an output pixel has alpha 0 exactly when its L1
\* distance to the detected background is <= tolerance or its own alpha was
\* already 0; the same holds of the image that was saved.
C1_AlphaZeroIffBackground ==
    Transformed =>
        /\ Len(new_data) = Len(src.data)
        /\ \A i \in 1..Len(src.data) :
             (new_data[i][4] = 0) <=> (L1(i) <= tolerance \/ SrcAlpha(i) = 0)
        /\ result = "True" =>
             \A i \in 1..Len(src.data) :
               (saved.data[i][4] = 0) <=> (L1(i) <= tolerance \/ SrcAlpha(i) = 0)

\* C1 witness: a pixel at distance exactly tolerance with non-zero alpha
\* became transparent and a pixel at distance tolerance + 1 did not
C1_Witness ==
    /\ pc = "save"
    /\ \E i, j \in 1..Len(src.data) :
         /\ L1(i) = tolerance /\ SrcAlpha(i) # 0 /\ new_data[i][4] = 0
         /\ L1(j) = tolerance + 1 /\ new_data[j][4] # 0

\* C2: the corners are sampled in the order top-left, top-right, bottom-left,
\* bottom-right without alpha, and the detected background is the sample with
\* the highest count, the first such in sampling order; four distinct corners
\* give the top-left colour, three white corners and a black one give white.
C2_DetectionMajorityFirst ==
    Detected =>
        /\ \A k \in 1..4 : <<corners[k][1], corners[k][2], corners[k][3]>> = Samples[k]
        /\ \E k \in 1..4 :
             /\ bg_color = Samples[k]
             /\ \A j \in 1..4 : SampleCount(j) <= SampleCount(k)
             /\ \A j \in 1..(k - 1) : SampleCount(j) < SampleCount(k)
        /\ (\A j, k \in 1..4 : j # k => Samples[j] # Samples[k])
             => bg_color = Samples[1]
        /\ (/\ Cardinality({k \in 1..4 : Samples[k] = <<255, 255, 255>>}) = 3
            /\ Cardinality({k \in 1..4 : Samples[k] = <<0, 0, 0>>}) = 1)
             => bg_color = <<255, 255, 255>>

\* C2 witness: four distinct corner colours, the top-left one detected
C2_Witness ==
    /\ pc = "transform"
    /\ \A j, k \in 1..4 : j # k => Samples[j] # Samples[k]
    /\ bg_color = Samples[1]

\* C3: a pixel that is not background (distance > tolerance) is emitted with
\* its alpha unchanged: the source alpha if the source had an alpha channel,
\* 255 if it had none.
C3_NonBackgroundAlphaKept ==
    Transformed =>
        \A i \in 1..Len(src.data) :
            L1(i) > tolerance =>
                new_data[i][4] = (IF src.mode = "RGBA" THEN src.data[i][4] ELSE 255)

\* C3 witness: a non-background pixel of an RGBA source kept its alpha 128
C3_Witness ==
    /\ pc = "save"
    /\ src.mode = "RGBA"
    /\ \E i \in 1..Len(src.data) :
         L1(i) > tolerance /\ src.data[i][4] = 128 /\ new_data[i][4] = 128

\* C4: the output has the width, height and pixel order of the input and at
\* every index the R, G, B of the output pixel are those of the input pixel.
C4_DimensionsAndColourPreserved ==
    Transformed =>
        /\ img.size = src.size
        /\ Len(new_data) = Width * Height
        /\ \A i \in 1..Len(src.data) :
             <<new_data[i][1], new_data[i][2], new_data[i][3]>>
               = <<src.data[i][1], src.data[i][2], src.data[i][3]>>
        /\ result = "True" =>
             /\ saved.size = src.size
             /\ Len(saved.data) = Width * Height
             /\ \A i \in 1..Len(src.data) :
                  <<saved.data[i][1], saved.data[i][2], saved.data[i][3]>>
                    = <<src.data[i][1], src.data[i][2], src.data[i][3]>>

\* C4 witness: a saved image of more than one pixel in which a coloured
\* pixel was made transparent
C4_Witness ==
    /\ pc = "done"
    /\ result = "True"
    /\ Len(src.data) > 1
    /\ \E i \in 1..Len(src.data) :
         /\ SrcAlpha(i) # 0
         /\ saved.data[i][4] = 0
         /\ <<saved.data[i][1], saved.data[i][2], saved.data[i][3]>> # <<0, 0, 0>>

\* C6: for every width >= 1 and height >= 1 the four corner indices lie in
\* [0, W*H - 1] and detection does not fail; corners that coincide are
\* sampled twice, and a 1x1 image yields its single pixel's RGB.
C6_CornerIndicesInBounds ==
    /\ \A k \in 1..4 :
         /\ 0 <= CornerIndices(src.size)[k]
         /\ CornerIndices(src.size)[k] <= Width * Height - 1
    /\ pc = "done" => corners # <<>>
    /\ Detected =>
         /\ Width = 1 => corners[1] = corners[2] /\ corners[3] = corners[4]
         /\ Height = 1 => corners[1] = corners[3] /\ corners[2] = corners[4]
         /\ (Width = 1 /\ Height = 1) => bg_color = SrcRGBAt(0, 0)

\* C6 witness: detection has run on a 1x1 image
C6_Witness ==
    /\ pc = "transform"
    /\ Width = 1 /\ Height = 1
    /\ bg_color = SrcRGBAt(0, 0)

\* C9: pixels_changed is the number of pixels whose L1 distance to the
\* detected background is <= tolerance, whatever their alpha was, and for a
\* tolerance >= 0 it lies between 1 and Width * Height.
C9_PixelsChangedCount ==
    Transformed =>
        /\ pixels_changed = Cardinality({i \in 1..Len(src.data) : L1(i) <= tolerance})
        /\ tolerance >= 0 => (1 <= pixels_changed /\ pixels_changed <= Width * Height)

\* C9 witness: a successful run that counted a background pixel whose alpha
\* was already 0 and left another pixel uncounted
C9_Witness ==
    /\ pc = "done"
    /\ result = "True"
    /\ \E i \in 1..Len(src.data) : L1(i) <= tolerance /\ SrcAlpha(i) = 0
    /\ pixels_changed >= 1
    /\ pixels_changed < Width * Height

-----------------------------------------------------------------------------
(* Properties of SpecFS *)

Last(q) == q[Len(q)]

InSeq(q, x) == \E k \in 1..Len(q) : q[k] = x

\* C5: process_directory returns a boolean instead of raising, and every
\* discovered file is attempted whatever happened to the files before it.
C5_BatchNeverTerminatesEarly ==
    op = "process_directory" =>
        /\ ret \in {"True", "False"}
        /\ DirExists(args.directory_path) =>
             \A k \in 1..Len(args.image_files) :
                 InSeq(attempted, args.image_files[k])

\* C7: with backup enabled, a file whose backup could not be created still
\* has its transform attempted, and the files after it are still processed.
C7_BackupFailureNonFatal ==
    (op = "process_directory" /\ args.backup) =>
        \A k \in 1..Len(args.image_files) :
            InSeq(log, Msg("Warning: Could not create backup", args.image_files[k]))
              => /\ InSeq(attempted, args.image_files[k])
                 /\ \A j \in (k + 1)..Len(args.image_files) :
                        InSeq(visited, args.image_files[j])

\* C8: remove_background returns True or False and never raises; for a
\* missing input it returns False having decoded and written nothing; when
\* decoding or saving raises it returns False; main returns normally and its
\* last message is the status line of the outcome.
C8_NoExceptionEscapes ==
    /\ op = "remove_background" =>
         /\ ret \in {"True", "False"}
         /\ ~args.input_existed => (ret = "False" /\ opened = {} /\ written = {})
         /\ exc # "none" => ret = "False"
    /\ op = "main" =>
         /\ ret = "None"
         /\ log # <<>>
         /\ opened # {} =>
              Last(log).msg = (IF exc = "none"
                               THEN "Image processing completed successfully!"
                               ELSE "Image processing failed.")

\* C8 witness: main called remove_background, the save raised, and main
\* printed the failure line and returned
C8_Witness ==
    /\ op = "main"
    /\ exc = "IOError"
    /\ ret = "None"
    /\ Last(log).msg = "Image processing failed."

\* C10: a backup that exists holds the content its file had at the start of
\* the process_directory call that created it, however many calls follow.
C10_BackupKeepsFirstContent ==
    \A p \in ImagePaths :
        Exists(fs, BackupPath(p)) => fs[BackupPath(p)] = pre_backup[p]

\* C10 witness: process_directory with backup enabled visited a file that
\* had been processed since its backup was made, and the backup still holds
\* the original
C10_Witness ==
    /\ op = "process_directory"
    /\ args.backup
    /\ \E p \in ImagePaths :
         /\ InSeq(visited, p)
         /\ fs[p] = "proc"
         /\ fs[BackupPath(p)] = "orig"
         /\ pre_backup[p] = "orig"

=============================================================================
